---- MODULE Spec2Model ----
(***************************************************************************)
(* Model of lm_eval/models/optimum_habana_lm.py: construction of the       *)
(* OptimumHabanaLM wrapper (Args, initialize_model, generation config,     *)
(* bucket list) and its bucketed forward pass (_model_call, find_bucket,   *)
(* max_length).                                                            *)
(***************************************************************************)
EXTENDS Integers, Sequences, FiniteSets, TLC

VARIABLES
    pc,                 \* position of the single-threaded control flow
    args,               \* the Args record of this instantiation
    env,                \* os.environ entries LOCAL_RANK, WORLD_SIZE, RANK
    model,              \* the loaded model (config + default generation_config)
    tokenizer,          \* the tokenizer built by setup_tokenizer
    generation_config,  \* self.generation_config
    buckets,            \* self.buckets
    model_inputs,       \* self.model_inputs
    inps,               \* local inps of _model_call (a bs x seq_length tensor)
    orig,               \* the tensor the caller passed to _model_call
    bucket_length,      \* local bucket_length of _model_call
    padding_length,     \* local padding_length of _model_call
    kv_cache,           \* arguments of the allocate_kv_cache made by this call
    logits,             \* local logits of _model_call
    trace,              \* steps the current call has entered, in order
    ret                 \* outcome of the last operation on the wrapper

vars == <<pc, args, env, model, tokenizer, generation_config, buckets,
          model_inputs, inps, orig, bucket_length, padding_length, kv_cache,
          logits, trace, ret>>

callvars == <<inps, orig, bucket_length, padding_length, kv_cache, logits, trace>>

wrappervars == <<generation_config, buckets, model_inputs>>

(***************************************************************************)
(* Bounds of the model.                                                    *)
(***************************************************************************)
MaxKwargs == 2      \* keyword overrides given to the constructor
MaxBatch == 2       \* rows of a batch passed to _model_call
MaxSeqLen == 3      \* sequence length of a batch passed to _model_call

(***************************************************************************)
(* Values.                                                                 *)
(***************************************************************************)
\* An attribute that has not been assigned (local_rank and friends before
\* setup_distributed, bucket_length outside static-shape mode).
Unset == -1

\* Token-id attributes are None, an int, or a list of ints.
NoneId == [list |-> FALSE, ids |-> <<>>]
IntId(e) == [list |-> FALSE, ids |-> <<e>>]
ListId(s) == [list |-> TRUE, ids |-> s]
IsNone(v) == ~v.list /\ v.ids = <<>>
IsList(v) == v.list

RECURSIVE SortedInsert(_, _)
SortedInsert(s, x) ==
    IF s = <<>> THEN <<x>>
    ELSE IF x < Head(s) THEN <<x>> \o s
    ELSE <<Head(s)>> \o SortedInsert(Tail(s), x)

RECURSIVE Sorted(_)
\* Python's sorted() on a list of ints: a new ascending list, same elements.
Sorted(s) == IF s = <<>> THEN <<>> ELSE SortedInsert(Sorted(SubSeq(s, 1, Len(s) - 1)), s[Len(s)])

Elems(s) == {s[i] : i \in 1..Len(s)}
IsAscending(s) == \A i \in 1..(Len(s) - 1) : s[i] <= s[i + 1]

(***************************************************************************)
(* class Args: the class attributes are the defaults.                      *)
(***************************************************************************)
DefaultBuckets == <<16, 32, 64, 128, 189, 284, 384>>

ArgsDefaults ==
    [ model_name_or_path |-> "",
      bf16 |-> TRUE,
      max_new_tokens |-> 100,
      max_input_tokens |-> 0,
      batch_size |-> 1,
      reuse_cache |-> TRUE,
      use_kv_cache |-> TRUE,
      attn_softmax_bf16 |-> TRUE,
      limit_hpu_graphs |-> TRUE,
      bucket_size |-> 128,
      reduce_recompile |-> FALSE,
      buckets |-> DefaultBuckets,
      local_rank |-> Unset,
      world_size |-> Unset,
      global_rank |-> Unset ]

\* Keyword arguments the constructor may be given, and the values tried.
KwargKeys == {"bf16", "max_new_tokens", "max_input_tokens", "reuse_cache",
              "use_kv_cache", "attn_softmax_bf16", "limit_hpu_graphs",
              "bucket_size", "reduce_recompile", "buckets"}

BucketChoices == {<<>>, <<3, 1>>, <<2>>, <<2, 1, 2>>}

Override(keys, k, values) == IF k \in keys THEN values ELSE {ArgsDefaults[k]}

\* Model identifiers and the batch sizes passed to the constructor.
Pretrained == {"meta-llama/Llama-2-7b-hf", "tiiuae/falcon-180B",
               "openbmb/MiniCPM3-4B", "adept/persimmon-8b-base"}
BatchSizes == {1, 8}

\* Args() followed by setattr for each keyword, then the model identifier
\* and the batch size.
ConstructedArgs(keys) ==
    [ model_name_or_path : Pretrained,
      bf16 : Override(keys, "bf16", {FALSE}),
      max_new_tokens : Override(keys, "max_new_tokens", {128}),
      max_input_tokens : Override(keys, "max_input_tokens", {4096}),
      batch_size : BatchSizes,
      reuse_cache : Override(keys, "reuse_cache", {FALSE}),
      use_kv_cache : Override(keys, "use_kv_cache", {FALSE}),
      attn_softmax_bf16 : Override(keys, "attn_softmax_bf16", {FALSE}),
      limit_hpu_graphs : Override(keys, "limit_hpu_graphs", {FALSE}),
      bucket_size : Override(keys, "bucket_size", {0, 64}),
      reduce_recompile : Override(keys, "reduce_recompile", {TRUE}),
      buckets : Override(keys, "buckets", BucketChoices),
      local_rank : {Unset},
      world_size : {Unset},
      global_rank : {Unset} ]

\* os.getenv("LOCAL_RANK", "0"), os.getenv("WORLD_SIZE", "0"), os.getenv("RANK", "0")
Environments ==
    { [LOCAL_RANK |-> 0, WORLD_SIZE |-> 0, RANK |-> 0],
      [LOCAL_RANK |-> 1, WORLD_SIZE |-> 2, RANK |-> 1] }

NoModel == [loaded |-> FALSE]
NoTokenizer == [loaded |-> FALSE]
NoConfig == [built |-> FALSE]
NoInputs == [built |-> FALSE]
NoRet == [op |-> "none", arg |-> Unset, status |-> "none", error |-> "", value |-> Unset, tensor |-> <<>>]

Init ==
    /\ pc = "constructed"
    /\ \E keys \in SUBSET KwargKeys :
          /\ Cardinality(keys) <= MaxKwargs
          /\ args \in ConstructedArgs(keys)
    /\ env \in Environments
    /\ model = NoModel
    /\ tokenizer = NoTokenizer
    /\ generation_config = NoConfig
    /\ buckets = <<>>
    /\ model_inputs = NoInputs
    /\ inps = <<>>
    /\ orig = <<>>
    /\ bucket_length = Unset
    /\ padding_length = 0
    /\ kv_cache = <<>>
    /\ logits = <<>>
    /\ trace = <<>>
    /\ ret = NoRet

(***************************************************************************)
(* initialize_model, step by step.                                         *)
(***************************************************************************)
\* setup_distributed(args)
setup_distributed ==
    /\ pc = "constructed"
    /\ args' = [args EXCEPT !.local_rank = env.LOCAL_RANK,
                            !.world_size = env.WORLD_SIZE,
                            !.global_rank = env.RANK]
    /\ pc' = "distributed"
    /\ UNCHANGED <<env, model, tokenizer, wrappervars, callvars, ret>>

\* "falcon-180B" in name or "falcon-180b" in name
NamesFalcon180B(name) == name \in {"tiiuae/falcon-180B", "tiiuae/falcon-180b"}

exclude_hpu_graph_configs(a) ==
    IF a.batch_size = 1 /\ a.limit_hpu_graphs
    THEN IF NamesFalcon180B(a.model_name_or_path) THEN FALSE
         ELSE IF /\ a.world_size \in {2, 4, 8}
                 /\ a.max_input_tokens >= 4096
                 /\ a.max_new_tokens >= 128
              THEN FALSE
              ELSE TRUE
    ELSE FALSE

\* if exclude_hpu_graph_configs(args): args.limit_hpu_graphs = False
ExcludeHpuGraphs ==
    /\ pc = "distributed"
    /\ args' = IF exclude_hpu_graph_configs(args)
               THEN [args EXCEPT !.limit_hpu_graphs = FALSE]
               ELSE args
    /\ pc' = "excluded"
    /\ UNCHANGED <<env, model, tokenizer, wrappervars, callvars, ret>>

use_deepspeed(a) == a.world_size > 0

\* setup_env, setup_device and the choice of model_dtype
SelectDtype ==
    /\ pc = "excluded"
    /\ args' = IF use_deepspeed(args) \/ args.bf16
               THEN args
               ELSE [args EXCEPT !.attn_softmax_bf16 = FALSE]
    /\ pc' = "dtype"
    /\ UNCHANGED <<env, model, tokenizer, wrappervars, callvars, ret>>

(***************************************************************************)
(* The model and tokenizer that from_pretrained gives for an identifier.   *)
(***************************************************************************)
PretrainedModel(name) ==
    IF name = "meta-llama/Llama-2-7b-hf" THEN
        [ loaded |-> TRUE, model_type |-> "llama", is_optimized |-> TRUE,
          is_encoder_decoder |-> FALSE, config_pad_token_id |-> NoneId,
          generation_config |-> [ pad_token_id |-> NoneId,
                                  eos_token_id |-> ListId(<<2, 3>>),
                                  bos_token_id |-> IntId(1) ] ]
    ELSE IF name = "tiiuae/falcon-180B" THEN
        [ loaded |-> TRUE, model_type |-> "falcon", is_optimized |-> TRUE,
          is_encoder_decoder |-> FALSE, config_pad_token_id |-> IntId(5),
          generation_config |-> [ pad_token_id |-> NoneId,
                                  eos_token_id |-> IntId(2),
                                  bos_token_id |-> IntId(1) ] ]
    ELSE IF name = "openbmb/MiniCPM3-4B" THEN
        [ loaded |-> TRUE, model_type |-> "minicpm3", is_optimized |-> FALSE,
          is_encoder_decoder |-> FALSE, config_pad_token_id |-> IntId(0),
          generation_config |-> [ pad_token_id |-> IntId(0),
                                  eos_token_id |-> ListId(<<2, 3>>),
                                  bos_token_id |-> IntId(1) ] ]
    ELSE
        [ loaded |-> TRUE, model_type |-> "persimmon", is_optimized |-> FALSE,
          is_encoder_decoder |-> FALSE, config_pad_token_id |-> NoneId,
          generation_config |-> [ pad_token_id |-> NoneId,
                                  eos_token_id |-> IntId(2),
                                  bos_token_id |-> IntId(1) ] ]

PretrainedTokenizer(name) ==
    [ loaded |-> TRUE,
      padding_side |-> "right",
      bos_token_id |-> NoneId,
      eos_token_id |-> IntId(2),
      pad_token_id |-> IF name = "openbmb/MiniCPM3-4B" THEN IntId(0) ELSE NoneId ]

\* Outcome of an operation called with arg: an exception, or a returned int or tensor.
Raised(op, arg, error) ==
    [op |-> op, arg |-> arg, status |-> "raised", error |-> error,
     value |-> Unset, tensor |-> <<>>]
Returned(op, arg, value, tensor) ==
    [op |-> op, arg |-> arg, status |-> "returned", error |-> "",
     value |-> value, tensor |-> tensor]

\* setup_model / setup_distributed_model: the framework loads the model or fails.
LoadModel ==
    /\ pc = "dtype"
    /\ \E ok \in BOOLEAN :
          IF ok
          THEN /\ model' = PretrainedModel(args.model_name_or_path)
               /\ pc' = "model"
               /\ ret' = ret
          ELSE /\ model' = model
               /\ pc' = "failed"
               /\ ret' = Raised("__init__", Unset, "framework")
    /\ UNCHANGED <<args, env, tokenizer, wrappervars, callvars>>

FirstId(v) == IF IsList(v) THEN IntId(v.ids[1]) ELSE v
LastId(v) == IF IsList(v) THEN IntId(v.ids[Len(v.ids)]) ELSE v

\* model.generation_config after setup_tokenizer
TokenizerFixedGeneration(m, tok0) ==
    LET g0 == m.generation_config
        g1 == IF m.model_type = "llama" /\ IsNone(g0.pad_token_id)
              THEN [g0 EXCEPT !.pad_token_id = FirstId(g0.eos_token_id)]
              ELSE g0
        g2 == IF m.model_type = "persimmon"
              THEN [g1 EXCEPT !.pad_token_id = g1.eos_token_id]
              ELSE g1
        g3 == IF m.model_type = "minicpm3" /\ IsList(g2.eos_token_id)
              THEN [g2 EXCEPT !.eos_token_id = LastId(g2.eos_token_id)]
              ELSE g2
        padNone == IF m.model_type \in {"llama", "persimmon"}
                   THEN FALSE
                   ELSE IsNone(tok0.pad_token_id)
    IN  IF padNone THEN [g3 EXCEPT !.pad_token_id = g3.eos_token_id] ELSE g3

\* the tokenizer after setup_tokenizer
FixedTokenizer(m, tok0) ==
    LET g == TokenizerFixedGeneration(m, tok0)
        side == IF m.is_encoder_decoder THEN tok0.padding_side ELSE "left"
    IN  IF m.model_type = "llama"
        THEN [tok0 EXCEPT !.padding_side = side,
                          !.bos_token_id = g.bos_token_id,
                          !.eos_token_id = FirstId(m.generation_config.eos_token_id),
                          !.pad_token_id = g.pad_token_id]
        ELSE IF m.model_type = "persimmon"
        THEN [tok0 EXCEPT !.padding_side = side,
                          !.bos_token_id = g.bos_token_id,
                          !.eos_token_id = g.eos_token_id,
                          !.pad_token_id = g.pad_token_id]
        ELSE IF IsNone(tok0.pad_token_id)
        THEN [tok0 EXCEPT !.padding_side = side, !.pad_token_id = tok0.eos_token_id]
        ELSE [tok0 EXCEPT !.padding_side = side]

setup_tokenizer ==
    /\ pc = "model"
    /\ LET tok0 == PretrainedTokenizer(args.model_name_or_path)
       IN  /\ tokenizer' = FixedTokenizer(model, tok0)
           /\ model' = [model EXCEPT !.generation_config = TokenizerFixedGeneration(model, tok0)]
    /\ pc' = "tokenizer"
    /\ UNCHANGED <<args, env, wrappervars, callvars, ret>>

(***************************************************************************)
(* setup_generation_config                                                 *)
(***************************************************************************)
GenerationOverlayArgsBucket(g, a, is_optimized) ==
    [ built |-> TRUE,
      pad_token_id |-> g.pad_token_id,
      eos_token_id |-> g.eos_token_id,
      bos_token_id |-> g.bos_token_id,
      max_new_tokens |-> a.max_new_tokens,
      use_cache |-> a.use_kv_cache,
      static_shapes |-> is_optimized,
      bucket_size |-> a.bucket_size,
      attn_softmax_bf16 |-> a.attn_softmax_bf16,
      limit_hpu_graphs |-> a.limit_hpu_graphs,
      reuse_cache |-> a.reuse_cache,
      reduce_recompile |-> a.reduce_recompile ]

\* The fields assigned on the copy of the model's default generation config.
GenerationOverlay(g, a, is_optimized) ==
    [ built |-> TRUE,
      pad_token_id |-> g.pad_token_id,
      eos_token_id |-> g.eos_token_id,
      bos_token_id |-> g.bos_token_id,
      max_new_tokens |-> a.max_new_tokens,
      use_cache |-> a.use_kv_cache,
      static_shapes |-> is_optimized,
      bucket_size |-> IF is_optimized THEN a.bucket_size ELSE -1,
      attn_softmax_bf16 |-> a.attn_softmax_bf16,
      limit_hpu_graphs |-> a.limit_hpu_graphs,
      reuse_cache |-> a.reuse_cache,
      reduce_recompile |-> a.reduce_recompile ]

ReduceRecompileAssertNonNegative(g) == g.reduce_recompile => g.bucket_size >= 0

\* if generation_config.reduce_recompile: assert generation_config.bucket_size > 0
ReduceRecompileAssert(g) == g.reduce_recompile => g.bucket_size > 0

\* generation_config = copy.deepcopy(model.generation_config): the model keeps
\* its own object, the assignments go to the copy.
ModelAfterGenerationSetup(m, a) == m

setup_generation_config ==
    /\ pc = "tokenizer"
    /\ LET g == GenerationOverlay(model.generation_config, args, model.is_optimized)
       IN  IF ReduceRecompileAssert(g)
           THEN /\ generation_config' = g
                /\ pc' = "generation"
                /\ ret' = ret
           ELSE /\ generation_config' = generation_config
                /\ pc' = "failed"
                /\ ret' = Raised("__init__", Unset, "AssertionError")
    /\ model' = ModelAfterGenerationSetup(model, args)
    /\ UNCHANGED <<args, env, tokenizer, buckets, model_inputs, callvars>>

(***************************************************************************)
(* OptimumHabanaLM.__init__ after initialize_model                         *)
(***************************************************************************)
ReuseCacheTypes == {"llama", "mistral", "falcon", "phi", "mixtral", "qwen2",
                    "gptj", "starcoder2", "gemma", "baichuan"}
FlashAttentionTypes == {"llama", "mistral", "qwen2", "falcon", "starcoder2",
                        "gemma", "baichuan"}

\* self.model_inputs, as the set of its (key, value) items; the flash-attention
\* entries are Args defaults copied through the generation config.
ModelInputs(g, model_type) ==
    {<<"use_cache", g.use_cache>>}
    \cup (IF model_type \in ReuseCacheTypes
          THEN {<<"reuse_cache", g.reuse_cache>>} ELSE {})
    \cup (IF model_type \in FlashAttentionTypes /\ model_type # "falcon"
          THEN {<<"attn_softmax_bf16", g.attn_softmax_bf16>>} ELSE {})
    \cup (IF model_type \in FlashAttentionTypes
          THEN {<<"use_flash_attention", TRUE>>,
                <<"flash_attention_recompute", FALSE>>,
                <<"flash_attention_causal_mask", FALSE>>}
          ELSE {})

\* self.buckets = sorted(args.buckets)
WrapperBuckets(a) == Sorted(a.buckets)

ArgsAfterInitSortedInPlace(a) == [a EXCEPT !.buckets = Sorted(a.buckets)]

\* sorted() builds a new list: args.buckets keeps the order it was given in.
ArgsAfterInit(a) == a

WrapperInit ==
    /\ pc = "generation"
    /\ buckets' = WrapperBuckets(args)
    /\ args' = ArgsAfterInit(args)
    /\ model_inputs' = ModelInputs(generation_config, model.model_type)
    /\ pc' = "ready"
    /\ UNCHANGED <<env, model, tokenizer, generation_config, callvars, ret>>

(***************************************************************************)
(* max_length, find_bucket                                                 *)
(***************************************************************************)
\* [b for b in self.buckets if b >= length]
Candidates(bs, length) == SelectSeq(bs, LAMBDA b : b >= length)

find_bucket_last(bs, length) ==
    LET c == SelectSeq(bs, LAMBDA b : b >= length)
    IN  IF c = <<>> THEN Raised("find_bucket", length, "IndexError")
        ELSE Returned("find_bucket", length, c[Len(c)], <<>>)

find_bucket_clamped(bs, length) ==
    LET c == SelectSeq(bs, LAMBDA b : b >= length)
    IN  IF c # <<>> THEN Returned("find_bucket", length, c[1], <<>>)
        ELSE IF bs # <<>> THEN Returned("find_bucket", length, bs[Len(bs)], <<>>)
        ELSE Raised("find_bucket", length, "IndexError")

\* find_bucket: element [0] of the candidates; IndexError when there is none.
find_bucket(bs, length) ==
    LET c == Candidates(bs, length)
    IN  IF c = <<>> THEN Raised("find_bucket", length, "IndexError")
        ELSE Returned("find_bucket", length, c[1], <<>>)

\* max_length: self.buckets[-1]; IndexError on an empty list.
max_length(bs) ==
    IF bs = <<>> THEN Raised("max_length", Unset, "IndexError")
    ELSE Returned("max_length", Unset, bs[Len(bs)], <<>>)

Lengths == 0..(MaxSeqLen + 1)

ClearCall ==
    /\ inps' = <<>>
    /\ orig' = <<>>
    /\ bucket_length' = Unset
    /\ padding_length' = 0
    /\ kv_cache' = <<>>
    /\ logits' = <<>>
    /\ trace' = <<>>

\* the harness calls find_bucket(length)
FindBucket ==
    /\ pc = "ready"
    /\ \E length \in Lengths : ret' = find_bucket(buckets, length)
    /\ pc' = "done"
    /\ UNCHANGED <<args, env, model, tokenizer, wrappervars, callvars>>

\* the harness reads max_length
MaxLength ==
    /\ pc = "ready"
    /\ ret' = max_length(buckets)
    /\ pc' = "done"
    /\ UNCHANGED <<args, env, model, tokenizer, wrappervars, callvars>>

\* The operation is over: its locals are gone and the evaluation loop, which
\* holds the outcome, goes on to its next operation on the wrapper.
Continue ==
    /\ pc = "done"
    /\ pc' = "ready"
    /\ ret' = NoRet
    /\ ClearCall
    /\ UNCHANGED <<args, env, model, tokenizer, wrappervars>>

(***************************************************************************)
(* _model_call                                                             *)
(***************************************************************************)
\* A bs x seq_length tensor of token ids; row r starts at token first + r - 1.
Tensor(bs, seq_length, first) ==
    [r \in 1..bs |-> [i \in 1..seq_length |-> first + (r - 1) + (i - 1)]]

\* First tokens of the batches tried: 0 is also a pad_token_id.
FirstTokens == {0, 1}

Batches == {Tensor(bs, n, first) : bs \in 1..MaxBatch, n \in Lengths, first \in FirstTokens}

\* inps.shape
BatchSize(t) == Len(t)
SeqLength(t) == Len(t[1])

\* F.pad(t, (0, n), value=v): n >= 0 appends n copies of v to every row, n < 0
\* removes -n trailing positions.
Pad(t, n, v) ==
    [r \in 1..Len(t) |->
        IF n >= 0 THEN t[r] \o [i \in 1..n |-> v]
        ELSE SubSeq(t[r], 1, Len(t[r]) + n)]

\* value=self._model.config.pad_token_id; F.pad pads with 0 when value is None
PadValue(m) == IF IsNone(m.config_pad_token_id) THEN 0 ELSE m.config_pad_token_id.ids[1]

\* A causal model: one logits position per input position, position i a
\* function of the tokens at positions 1..i (here, those tokens).
ModelLogits(t) == [r \in 1..Len(t) |-> [i \in 1..Len(t[r]) |-> SubSeq(t[r], 1, i)]]

\* logits[:, :-n, :] for n > 0
DropLast(t, n) ==
    [r \in 1..Len(t) |->
        SubSeq(t[r], 1, IF Len(t[r]) - n > 0 THEN Len(t[r]) - n ELSE 0)]

AfterBucketUseCacheOnly(g) == IF g.use_cache THEN "call_allocate" ELSE "call_pad"

\* The branch taken after bucket selection: cache allocation or padding.
AfterBucket(g) == IF g.use_cache /\ g.reuse_cache THEN "call_allocate" ELSE "call_pad"

\* _model_call has no try/except: an exception raised at any position ends
\* the call and reaches the caller.
OnExceptionRetry(position) == position
OnException(position) == "done"

\* The first step of the call: bucket selection in static-shape mode.
CallEntryAlwaysBucket(g) == "call_bucket"
CallEntry(g) == IF g.static_shapes THEN "call_bucket" ELSE "call_model"

\* bs, seq_length = inps.shape; padding_length = 0
ModelCall ==
    /\ pc = "ready"
    /\ \E t \in Batches :
          /\ inps' = t
          /\ orig' = t
          /\ ret' = [NoRet EXCEPT !.op = "_model_call", !.arg = SeqLength(t),
                                  !.status = "running"]
    /\ padding_length' = 0
    /\ bucket_length' = Unset
    /\ kv_cache' = <<>>
    /\ logits' = <<>>
    /\ trace' = <<>>
    /\ pc' = CallEntry(generation_config)
    /\ UNCHANGED <<args, env, model, tokenizer, wrappervars>>

\* bucket_length = self.find_bucket(seq_length)
CallFindBucket ==
    /\ pc = "call_bucket"
    /\ LET r == find_bucket(buckets, SeqLength(inps))
       IN  IF r.status = "raised"
           THEN /\ ret' = Raised("_model_call", SeqLength(orig), r.error)
                /\ pc' = OnException(pc)
                /\ UNCHANGED <<bucket_length, trace>>
           ELSE /\ bucket_length' = r.value
                /\ trace' = Append(trace, "find_bucket")
                /\ pc' = AfterBucket(generation_config)
                /\ ret' = ret
    /\ UNCHANGED <<args, env, model, tokenizer, wrappervars, inps, orig,
                   padding_length, kv_cache, logits>>

\* self._model.allocate_kv_cache(bs, bucket_length + 1, bucket_length)
KvCacheShape(bs, b) == <<bs, b + 1, b>>

CallAllocate ==
    /\ pc = "call_allocate"
    /\ kv_cache' = KvCacheShape(BatchSize(inps), bucket_length)
    /\ trace' = Append(trace, "allocate_kv_cache")
    /\ \E ok \in BOOLEAN :
          IF ok
          THEN /\ pc' = "call_pad"
               /\ ret' = ret
          ELSE /\ ret' = Raised("_model_call", SeqLength(orig), "framework")
               /\ pc' = OnException(pc)
    /\ UNCHANGED <<args, env, model, tokenizer, wrappervars, inps, orig,
                   bucket_length, padding_length, logits>>

\* padding_length = bucket_length - seq_length
PaddingLength(b, seq_length) == b - seq_length

\* inps = F.pad(inps, (0, padding_length), value=pad_token_id)
CallPad ==
    /\ pc = "call_pad"
    /\ padding_length' = PaddingLength(bucket_length, SeqLength(inps))
    /\ inps' = Pad(inps, padding_length', PadValue(model))
    /\ trace' = Append(trace, "pad")
    /\ pc' = "call_model"
    /\ UNCHANGED <<args, env, model, tokenizer, wrappervars, orig, bucket_length,
                   kv_cache, logits, ret>>

\* logits = self._model(inps, **self.model_inputs)["logits"]
CallModel ==
    /\ pc = "call_model"
    /\ trace' = Append(trace, "model")
    /\ \E ok \in BOOLEAN :
          IF ok
          THEN /\ logits' = ModelLogits(inps)
               /\ pc' = "call_return"
               /\ ret' = ret
          ELSE /\ ret' = Raised("_model_call", SeqLength(orig), "framework")
               /\ pc' = OnException(pc)
               /\ logits' = logits
    /\ UNCHANGED <<args, env, model, tokenizer, wrappervars, inps, orig,
                   bucket_length, padding_length, kv_cache>>

TruncatesOffByOne(g, n) == g.static_shapes /\ n > 1

\* if static_shapes and padding_length > 0: logits = logits[:, :-padding_length, :]
Truncates(g, n) == g.static_shapes /\ n > 0

Truncated(g, l, n) == IF Truncates(g, n) THEN DropLast(l, n) ELSE l

\* the truncation, the float32 conversion and the return
CallReturn ==
    /\ pc = "call_return"
    /\ logits' = Truncated(generation_config, logits, padding_length)
    /\ trace' = IF Truncates(generation_config, padding_length)
                THEN Append(trace, "truncate") ELSE trace
    /\ ret' = Returned("_model_call", SeqLength(orig), Unset, logits')
    /\ pc' = "done"
    /\ UNCHANGED <<args, env, model, tokenizer, wrappervars, inps, orig,
                   bucket_length, padding_length, kv_cache>>

Next ==
    \/ setup_distributed
    \/ ExcludeHpuGraphs
    \/ SelectDtype
    \/ LoadModel
    \/ setup_tokenizer
    \/ setup_generation_config
    \/ WrapperInit
    \/ FindBucket
    \/ MaxLength
    \/ Continue
    \/ ModelCall
    \/ CallFindBucket
    \/ CallAllocate
    \/ CallPad
    \/ CallModel
    \/ CallReturn

Spec == Init /\ [][Next]_vars

(***************************************************************************)
(* Vocabulary of the properties.                                           *)
(***************************************************************************)
MaxOf(S) == CHOOSE x \in S : \A y \in S : y <= x

\* The wrapper exists: __init__ has completed.
WrapperStates == {"ready", "call_bucket", "call_allocate", "call_pad",
                  "call_model", "call_return", "done"}

InCall == ret.op = "_model_call"
CallReturned == InCall /\ ret.status = "returned"
CallRaised == InCall /\ ret.status = "raised"
Static == generation_config.built /\ generation_config.static_shapes

\* The sequence length of the current call fits a bucket.
Fits == \E b \in Elems(buckets) : b >= SeqLength(orig)

\* b is the smallest element of the bucket list that is >= length.
SmallestFitting(b, length) ==
    /\ b \in Elems(buckets)
    /\ b >= length
    /\ \A c \in Elems(buckets) : c >= length => c >= b

Did(step) == \E i \in 1..Len(trace) : trace[i] = step
Times(step) == Cardinality({i \in 1..Len(trace) : trace[i] = step})
IsPrefix(s, t) == Len(s) <= Len(t) /\ SubSeq(t, 1, Len(s)) = s

(***************************************************************************)
(* C1: find_bucket(L), for L at most the largest bucket, returns the       *)
(* smallest element of the wrapper's bucket list that is >= L; this holds  *)
(* for a direct call and for the selection made inside _model_call.        *)
(***************************************************************************)
FindBucketSmallest ==
    /\ (/\ ret.op = "find_bucket"
        /\ buckets # <<>>
        /\ ret.arg <= MaxOf(Elems(buckets)))
       => (ret.status = "returned" /\ SmallestFitting(ret.value, ret.arg))
    /\ (InCall /\ Did("find_bucket"))
       => SmallestFitting(bucket_length, SeqLength(orig))

\* find_bucket has answered a length lying strictly between two buckets.
FindBucketBetween ==
    /\ ret.op = "find_bucket"
    /\ ret.status = "returned"
    /\ ret.value > ret.arg
    /\ \E b \in Elems(buckets) : b < ret.arg

(***************************************************************************)
(* C2: a _model_call on a batch of shape (bs, L) whose L fits a bucket     *)
(* does not fail in bucket selection, and the logits it returns have batch *)
(* size bs and sequence length L, with or without padding.                 *)
(***************************************************************************)
LogitsKeepShape ==
    /\ CallReturned =>
          /\ Len(ret.tensor) = BatchSize(orig)
          /\ \A r \in 1..Len(ret.tensor) : Len(ret.tensor[r]) = SeqLength(orig)
    /\ (CallRaised /\ ret.error = "IndexError") => (Static /\ ~Fits)

\* A call returned after padding was added (L strictly between buckets) and removed.
ReturnedAfterPadding ==
    /\ CallReturned
    /\ Static
    /\ padding_length > 0
    /\ Did("truncate")
    /\ \E b \in Elems(buckets) : b < SeqLength(orig)

\* A call returned with L equal to a bucket: no padding.
ReturnedWithoutPadding ==
    /\ CallReturned
    /\ Static
    /\ padding_length = 0
    /\ SeqLength(orig) \in Elems(buckets)

(***************************************************************************)
(* C3: in every state of the wrapper the bucket list is non-empty and      *)
(* sorted ascending and max_length is the maximum of the configured        *)
(* buckets, whatever list was supplied.                                    *)
(***************************************************************************)
BucketsWellFormed ==
    pc \in WrapperStates =>
        /\ buckets # <<>>
        /\ IsAscending(buckets)
        /\ max_length(buckets).status = "returned"
        /\ max_length(buckets).value = MaxOf(Elems(args.buckets))

\* The same, for the non-empty lists only.
NonEmptyBucketsWellFormed ==
    (pc \in WrapperStates /\ args.buckets # <<>>) =>
        /\ buckets # <<>>
        /\ IsAscending(buckets)
        /\ Elems(buckets) = Elems(args.buckets)
        /\ max_length(buckets).status = "returned"
        /\ max_length(buckets).value = MaxOf(Elems(args.buckets))

(***************************************************************************)
(* C4: in static-shape mode a _model_call whose sequence length exceeds    *)
(* the largest bucket fails in bucket selection: no logits are returned    *)
(* and neither the cache allocation nor the model invocation has happened. *)
(***************************************************************************)
TooLongFailsInSelection ==
    (InCall /\ Static /\ ~Fits) =>
        /\ pc \in {"call_bucket", "done"}
        /\ trace = <<>>
        /\ kv_cache = <<>>
        /\ logits = <<>>
        /\ pc = "done" => (/\ ret.status = "raised"
                            /\ ret.error = "IndexError"
                            /\ ret.tensor = <<>>)

\* A call failed in bucket selection on a length above the largest bucket.
TooLongFailed ==
    /\ CallRaised
    /\ ret.error = "IndexError"
    /\ buckets # <<>>
    /\ SeqLength(orig) > MaxOf(Elems(buckets))

(***************************************************************************)
(* C5: setup_generation_config fails whenever reduce_recompile is enabled  *)
(* and the bucket size is not positive, and returns a generation config    *)
(* whenever reduce_recompile is enabled and the Args bucket size is        *)
(* positive, or reduce_recompile is disabled.                              *)
(***************************************************************************)
\* setup_generation_config has run: the model was loaded and control is past it.
GenerationSetupRan == model.loaded /\ pc \notin {"model", "tokenizer"}

GenerationSetupFailed ==
    /\ pc = "failed"
    /\ ret.error = "AssertionError"
    /\ ~generation_config.built

GenerationSetupReturned == pc # "failed" /\ generation_config.built

PositiveArgsBucketSizeSuffices ==
    GenerationSetupRan =>
        /\ (args.reduce_recompile /\ args.bucket_size <= 0) => GenerationSetupFailed
        /\ (~args.reduce_recompile \/ args.bucket_size > 0) => GenerationSetupReturned

\* C5 as amended: the size that must be positive is the one of the derived
\* config (the Args bucket size for an optimized model, -1 otherwise), so the
\* config is returned when reduce_recompile is disabled, or the model is
\* optimized and the Args bucket size is positive, and the set-up fails otherwise.
PositiveEffectiveBucketSizeRequired ==
    GenerationSetupRan =>
        /\ (args.reduce_recompile /\ (~model.is_optimized \/ args.bucket_size <= 0))
              => GenerationSetupFailed
        /\ (~args.reduce_recompile \/ (model.is_optimized /\ args.bucket_size > 0))
              => GenerationSetupReturned

\* The check rejected a non-positive Args bucket size of an optimized model.
NonPositiveBucketSizeRejected ==
    /\ GenerationSetupRan
    /\ GenerationSetupFailed
    /\ model.is_optimized
    /\ args.reduce_recompile
    /\ args.bucket_size <= 0

(***************************************************************************)
(* C6: once the Args record is constructed, initialize_model and all that  *)
(* follows leave every Args field unchanged except local_rank, world_size  *)
(* and global_rank.                                                        *)
(***************************************************************************)
EnvironmentFields == {"local_rank", "world_size", "global_rank"}
ResetFields == {"limit_hpu_graphs", "attn_softmax_bf16"}

ArgsReadOnlyButEnvironment ==
    [][\A f \in (DOMAIN args) \ EnvironmentFields : args'[f] = args[f]]_vars

\* C6 as amended: besides the three environment-derived fields, which change
\* in setup_distributed only, initialize_model may reset limit_hpu_graphs and
\* attn_softmax_bf16 to False; no other field changes, and none at all once
\* initialize_model has returned.
ArgsReadOnlyButEnvironmentAndResets ==
    [][/\ \A f \in (DOMAIN args) \ (EnvironmentFields \cup ResetFields) :
             args'[f] = args[f]
       /\ \A f \in ResetFields : args'[f] # args[f] =>
             (~args'[f] /\ pc \in {"distributed", "excluded"})
       /\ \A f \in EnvironmentFields : args'[f] # args[f] => pc = "constructed"
       /\ pc \in ({"generation"} \cup WrapperStates) => args' = args]_vars

\* The wrapper is built from an unsorted bucket list, which Args still holds
\* as supplied, and initialize_model has reset limit_hpu_graphs.
ArgsKeptThroughInit ==
    /\ pc = "done"
    /\ ~IsAscending(args.buckets)
    /\ buckets = Sorted(args.buckets)
    /\ args.world_size # Unset
    /\ ~args.limit_hpu_graphs
    /\ args.reuse_cache
    /\ CallReturned

(***************************************************************************)
(* C7: in static-shape mode _model_call selects the bucket, then allocates *)
(* the key/value cache (iff use_cache and reuse_cache, with arguments      *)
(* bs, bucket + 1, bucket), then right-pads the input to the bucket length *)
(* keeping the original tokens in front, then invokes the model on the     *)
(* padded input, then removes exactly the padded positions of the logits.  *)
(***************************************************************************)
StaticSteps ==
    <<"find_bucket">>
    \o (IF generation_config.use_cache /\ generation_config.reuse_cache
        THEN <<"allocate_kv_cache">> ELSE <<>>)
    \o <<"pad", "model", "truncate">>

StaticCallOrder ==
    (InCall /\ Static) =>
        LET n == SeqLength(orig) IN
        /\ IsPrefix(trace, StaticSteps)
        /\ Did("find_bucket") => SmallestFitting(bucket_length, n)
        /\ Did("allocate_kv_cache") =>
              kv_cache = <<BatchSize(orig), bucket_length + 1, bucket_length>>
        /\ ~Did("allocate_kv_cache") => kv_cache = <<>>
        /\ ~Did("pad") => (inps = orig /\ padding_length = 0)
        /\ Did("pad") =>
              /\ padding_length = bucket_length - n
              /\ Len(inps) = Len(orig)
              /\ \A r \in 1..Len(inps) :
                    /\ Len(inps[r]) = bucket_length
                    /\ SubSeq(inps[r], 1, n) = orig[r]
                    /\ \A i \in (n + 1)..bucket_length : inps[r][i] = PadValue(model)
        /\ pc = "call_return" => logits = ModelLogits(inps)
        /\ CallReturned =>
              /\ Did("truncate") <=> padding_length > 0
              /\ ret.tensor = [r \in 1..Len(inps) |->
                                  SubSeq(ModelLogits(inps)[r], 1, n)]

\* A static-shape call went through all five steps.
AllStepsTaken == InCall /\ Static /\ CallReturned /\ Len(trace) = 5

(***************************************************************************)
(* C8: one _model_call invokes the model at most once; a failure of the    *)
(* invocation, or of the cache allocation before it, ends the call with    *)
(* that failure, returns no logits and is followed by no further           *)
(* invocation.                                                             *)
(***************************************************************************)
NoRetries ==
    InCall =>
        /\ Times("model") <= 1
        /\ Times("allocate_kv_cache") <= 1
        /\ ret.status = "raised" =>
              /\ pc = "done"
              /\ ret.tensor = <<>>
              /\ ret.error = "framework" =>
                    (trace # <<>> /\ trace[Len(trace)] \in {"model", "allocate_kv_cache"})
              /\ (ret.error = "framework" /\ trace[Len(trace)] = "allocate_kv_cache")
                    => ~Did("model")

\* The model invocation of a call failed after the cache had been allocated.
InvocationFailed ==
    /\ CallRaised
    /\ ret.error = "framework"
    /\ Did("allocate_kv_cache")
    /\ trace[Len(trace)] = "model"

\* The cache allocation of a call failed.
AllocationFailed ==
    /\ CallRaised
    /\ ret.error = "framework"
    /\ trace[Len(trace)] = "allocate_kv_cache"

(***************************************************************************)
(* C9: with static-shape mode disabled _model_call selects no bucket,      *)
(* allocates no cache and pads nothing; the model is invoked on the input  *)
(* as given and the logits are returned untruncated, also for lengths      *)
(* above the largest bucket, which do not fail in bucket selection.        *)
(***************************************************************************)
DynamicCallUntouched ==
    (InCall /\ ~Static) =>
        /\ IsPrefix(trace, <<"model">>)
        /\ bucket_length = Unset
        /\ kv_cache = <<>>
        /\ padding_length = 0
        /\ inps = orig
        /\ pc \in {"call_model", "call_return", "done"}
        /\ pc = "call_return" => logits = ModelLogits(orig)
        /\ CallReturned => ret.tensor = ModelLogits(orig)
        /\ CallRaised => ret.error = "framework"

\* A call outside static-shape mode returned logits for a length above max_length.
DynamicCallAboveMaxLength ==
    /\ CallReturned
    /\ ~Static
    /\ max_length(buckets).status = "returned"
    /\ SeqLength(orig) > max_length(buckets).value
    /\ Len(ret.tensor[1]) = SeqLength(orig)

(***************************************************************************)
(* C10: a returned generation config has static_shapes true exactly for an *)
(* optimized model and bucket_size equal to the Args bucket_size under     *)
(* static shapes and to -1 otherwise; so for a model that is not optimized *)
(* the set-up fails under reduce_recompile whatever the Args bucket_size;  *)
(* building the config leaves the model's own generation config as it was. *)
(***************************************************************************)
DerivedConfigShape ==
    /\ generation_config.built =>
          /\ generation_config.static_shapes <=> model.is_optimized
          /\ generation_config.static_shapes =>
                generation_config.bucket_size = args.bucket_size
          /\ ~generation_config.static_shapes => generation_config.bucket_size = -1
    /\ (GenerationSetupRan /\ ~model.is_optimized /\ args.reduce_recompile)
          => GenerationSetupFailed

ModelConfigKept == pc = "tokenizer" => model' = model

DerivedGenerationConfig == []DerivedConfigShape /\ [][ModelConfigKept]_vars

\* The set-up failed for a model that is not optimized although the Args
\* bucket size is positive.
PositiveBucketSizeRejected ==
    /\ GenerationSetupRan
    /\ GenerationSetupFailed
    /\ ~model.is_optimized
    /\ args.reduce_recompile
    /\ args.bucket_size > 0
====
